---- MODULE Spec2Model ----
(***************************************************************************)
(* SG Bookkeeper: the sequence service (app/services/core_services.py),    *)
(* the company-creation wizard (app/ui/company/company_creation_wizard.py) *)
(* and the tenant-provisioning protocol the wizard feeds.                  *)
(*                                                                         *)
(* Text is a sequence of one-character strings.  A database row is a       *)
(* record with an `exists` flag, so "no row" is a value of the same shape. *)
(* An Optional[int] is a sequence of length at most one.                   *)
(***************************************************************************)
EXTENDS Integers, Sequences, FiniteSets, TLC

VARIABLES
    sequences,      \* core.sequences, committed rows: name -> row
    callerTx,       \* the caller-supplied AsyncSession: its status and flushed, uncommitted rows
    pc,             \* per client: where its get_next_sequence call stands
    last,           \* the outcome of the operation completed last
    before,         \* the committed table when the concurrent calls started
    ret,            \* per client: what its get_next_sequence call returned
    page,           \* the wizard's current page, or how the wizard ended
    companyName,    \* DetailsPage.company_name_edit, field "companyName"
    dbName,         \* DetailsPage.db_name_edit, field "dbName"
    useDefaultCoa,  \* DetailsPage.use_default_coa_check, field "useDefaultCoa"
    summary,        \* what FinalPage.summary_label shows
    message,        \* the QMessageBox.warning validatePage has just raised
    prov,           \* the provisioning attempt: its inputs, step and outcome
    databases,      \* storage identifier -> what the database server holds under it
    tenants,        \* storage identifiers of the tenants that exist
    signal,         \* the "tenant ready" signal sent to the host application
    attempts        \* provisioning attempts started

seqVars == <<sequences, callerTx, pc, last, before, ret>>

uiVars == <<page, companyName, dbName, useDefaultCoa, summary, message>>

provVars == <<prov, databases, tenants, signal, attempts>>

vars == <<sequences, callerTx, pc, last, before, ret,
          page, companyName, dbName, useDefaultCoa, summary, message,
          prov, databases, tenants, signal, attempts>>

----------------------------------------------------------------------------
(* Bounds *)

\* in Spec, get_next_sequence is not started on a counter that has reached MaxValue
MaxValue == 2
\* number of concurrent callers of the service
NumClients == 2

Clients == 1..NumClients
Names == {"INV", "JE"}
Templates == {"{VALUE}", "INV-{VALUE:05}"}
\* initial values a caller passes when it defines a counter
InitialValues == {0, 1}
\* stored values the concurrent-issue scenario starts from
IssueStartValues == {0, 8, 98}

----------------------------------------------------------------------------
(* Rows and tables *)

NoRow == [exists |-> FALSE, current_value |-> 0, format_template |-> ""]

Row(v, t) == [exists |-> TRUE, current_value |-> v, format_template |-> t]

EmptyTable == [n \in Names |-> NoRow]

\* Python's str() of a non-negative int: its decimal digits, most significant first
Digit(d) == CASE d = 0 -> "0" [] d = 1 -> "1" [] d = 2 -> "2" [] d = 3 -> "3"
              [] d = 4 -> "4" [] d = 5 -> "5" [] d = 6 -> "6" [] d = 7 -> "7"
              [] d = 8 -> "8" [] d = 9 -> "9"

RECURSIVE Str(_)
Str(n) == IF n < 10 THEN <<Digit(n)>> ELSE Str(n \div 10) \o <<Digit(n % 10)>>

----------------------------------------------------------------------------
(* The storage boundary *)

\* core.get_next_sequence_value: one atomic increment-and-fetch on the row of `name`
get_next_sequence_value(table, name) ==
    IF ~table[name].exists
    THEN [raised |-> "UnknownSequence", table |-> table, value |-> <<>>]
    ELSE LET v == table[name].current_value + 1
         IN  [raised |-> "", table |-> [table EXCEPT ![name].current_value = v],
              value |-> <<v>>]

\* the unique constraint on sequence_name, as the session `view` of the table sees it
UniqueViolation(view, name) == view[name].exists

\* what the caller's session sees: its own flushed rows over the committed ones
CallerView == [n \in Names |->
                 IF callerTx.writes[n].exists THEN callerTx.writes[n] ELSE sequences[n]]

\* a row or index entry the caller's open transaction has written is locked for the others
LockedByCaller(name) == callerTx.writes[name].exists

NoEvent == [op |-> "", name |-> "", loaded |-> FALSE, session |-> FALSE,
            raised |-> "", row |-> NoRow, text |-> <<>>]

Event(op, name, raised, row, text) ==
    [NoEvent EXCEPT !.op = op, !.name = name, !.raised = raised, !.row = row, !.text = text]

Idle == [at |-> "idle", sequence_name |-> "", next_val |-> <<>>]

NoReturn == [sequence_name |-> "", text |-> <<>>]

----------------------------------------------------------------------------
(* SequenceService.get_sequence_by_name *)

\* a select that lost its where clause: the first row of the table
SelectFirstUnfiltered(table, name) ==
    IF \E n \in Names : table[n].exists
    THEN table[CHOOSE n \in Names : table[n].exists]
    ELSE NoRow

\* select(Sequence).where(Sequence.sequence_name == name) ... .scalars().first()
SelectFirst(table, name) == table[name]

\* the session the service opens for the select sees the committed rows
get_sequence_by_name(name) ==
    /\ last' = Event("get_sequence_by_name", name, "", SelectFirst(sequences, name), <<>>)
    /\ UNCHANGED <<sequences, callerTx, pc>>

----------------------------------------------------------------------------
(* SequenceService.get_next_sequence *)

\* a statement that reads the next value and does not store it
db_func_call_read_only(seq_name) ==
    [raised |-> IF sequences[seq_name].exists THEN "" ELSE "UnknownSequence",
     table |-> sequences,
     value |-> IF sequences[seq_name].exists
               THEN <<sequences[seq_name].current_value + 1>> ELSE <<>>]

\* a statement that creates the counter it does not find
db_func_call_get_or_create(seq_name) ==
    IF sequences[seq_name].exists
    THEN get_next_sequence_value(sequences, seq_name)
    ELSE [raised |-> "", table |-> [sequences EXCEPT ![seq_name] = Row(1, "")],
          value |-> <<1>>]

\* session.execute(text("SELECT core.get_next_sequence_value(:seq_name);"), {...})
db_func_call(seq_name) == get_next_sequence_value(sequences, seq_name)

\* the statement waits while the caller's open transaction holds the row
CanExecute(sequence_name) ==
    ~(sequences[sequence_name].exists /\ LockedByCaller(sequence_name))

\* a call that hands back the value before the increment
get_next_sequence_result_previous(sequence_name, next_val) ==
    IF next_val = <<>>
    THEN Event("get_next_sequence", sequence_name, "RuntimeError", NoRow, <<>>)
    ELSE Event("get_next_sequence", sequence_name, "", NoRow, Str(next_val[1] - 1))

\* next_val = result.scalar_one_or_none(): RuntimeError on None, else str(next_val)
get_next_sequence_result(sequence_name, next_val) ==
    IF next_val = <<>>
    THEN Event("get_next_sequence", sequence_name, "RuntimeError", NoRow, <<>>)
    ELSE Event("get_next_sequence", sequence_name, "", NoRow, Str(next_val[1]))

\* the whole call: what follows the statement touches nothing shared
get_next_sequence(sequence_name) ==
    /\ CanExecute(sequence_name)
    /\ LET result == db_func_call(sequence_name)
       IN  IF result.raised # ""
           THEN /\ last' = Event("get_next_sequence", sequence_name, result.raised, NoRow, <<>>)
                /\ UNCHANGED sequences
           ELSE /\ sequences' = result.table
                /\ last' = get_next_sequence_result(sequence_name, result.value)
    /\ UNCHANGED <<callerTx, pc>>

\* the call of client c up to the await of session.execute: the statement has run
get_next_sequence_execute(c, sequence_name) ==
    /\ pc[c].at = "idle"
    /\ CanExecute(sequence_name)
    /\ LET result == db_func_call(sequence_name)
       IN  IF result.raised # ""
           THEN /\ last' = Event("get_next_sequence", sequence_name, result.raised, NoRow, <<>>)
                /\ UNCHANGED <<sequences, pc>>
           ELSE /\ sequences' = result.table
                /\ pc' = [pc EXCEPT ![c] = [at |-> "executed",
                                            sequence_name |-> sequence_name,
                                            next_val |-> result.value]]
                /\ last' = NoEvent
    /\ UNCHANGED callerTx

\* the call of client c from there to its return
get_next_sequence_return(c) ==
    /\ pc[c].at = "executed"
    /\ last' = get_next_sequence_result(pc[c].sequence_name, pc[c].next_val)
    /\ pc' = [pc EXCEPT ![c] = Idle]
    /\ UNCHANGED <<sequences, callerTx>>

----------------------------------------------------------------------------
(* SequenceService.save_sequence *)

\* the attributes of obj that an UPDATE writes over `row`
Updated(row, obj) ==
    Row(IF obj.current_value = <<>> THEN row.current_value ELSE obj.current_value[1],
        IF obj.format_template = <<>> THEN row.format_template ELSE obj.format_template[1])

\* sess.merge in place of sess.add: a new object overwrites the row of its name
_save_merge(view, obj) ==
    [raised |-> "", written |-> TRUE,
     row |-> IF obj.loaded THEN Updated(view[obj.sequence_name], obj)
             ELSE Row(obj.current_value[1], obj.format_template[1])]

\* sess.add(sequence_obj); flush; refresh, against the table `view` the session sees.
\* A new object is INSERTed; an object loaded earlier carries its row's identity,
\* is re-attached, and its modified attributes are UPDATEd.
_save(view, obj) ==
    IF obj.loaded
    THEN [raised |-> "", written |-> TRUE, row |-> Updated(view[obj.sequence_name], obj)]
    ELSE IF UniqueViolation(view, obj.sequence_name)
         THEN [raised |-> "DuplicateSequence", written |-> FALSE, row |-> NoRow]
         ELSE [raised |-> "", written |-> TRUE,
               row |-> Row(obj.current_value[1], obj.format_template[1])]

SaveEvent(obj, session, r) ==
    [Event("save_sequence", obj.sequence_name, r.raised, r.row, <<>>)
       EXCEPT !.loaded = obj.loaded, !.session = session]

\* session is None: the service opens its own session, which commits on exit
save_sequence_own_session(obj) ==
    /\ ~LockedByCaller(obj.sequence_name)
    /\ LET r == _save(sequences, obj)
       IN  /\ sequences' = IF r.written
                           THEN [sequences EXCEPT ![obj.sequence_name] = r.row]
                           ELSE sequences
           /\ last' = SaveEvent(obj, FALSE, r)
    /\ UNCHANGED <<callerTx, pc>>

\* session is given: the row is flushed into the caller's transaction, not committed;
\* a failed flush leaves that transaction good for a rollback only
save_sequence_caller_session(obj) ==
    /\ callerTx.status # "failed"
    /\ LET r == _save(CallerView, obj)
       IN  /\ callerTx' = IF r.written
                          THEN [status |-> "active",
                                writes |-> [callerTx.writes EXCEPT ![obj.sequence_name] = r.row]]
                          ELSE [callerTx EXCEPT !.status = "failed"]
           /\ last' = SaveEvent(obj, TRUE, r)
    /\ UNCHANGED <<sequences, pc>>

\* the caller ends its transaction
CallerCommit ==
    /\ callerTx.status = "active"
    /\ sequences' = CallerView
    /\ callerTx' = [status |-> "idle", writes |-> EmptyTable]
    /\ last' = NoEvent
    /\ UNCHANGED pc

CallerRollback ==
    /\ callerTx.status \in {"active", "failed"}
    /\ callerTx' = [status |-> "idle", writes |-> EmptyTable]
    /\ last' = NoEvent
    /\ UNCHANGED <<sequences, pc>>

\* Sequence(sequence_name=..., current_value=..., format_template=...): a new object
NewSequences ==
    [loaded : {FALSE}, sequence_name : Names,
     current_value : {<<v>> : v \in InitialValues},
     format_template : {<<t>> : t \in Templates}]

\* an object get_sequence_by_name returned, with some attributes set since
LoadedSequences ==
    {o \in [loaded : {TRUE}, sequence_name : Names,
            current_value : {<<>>} \cup {<<v>> : v \in 0..MaxValue},
            format_template : {<<>>} \cup {<<t>> : t \in Templates}] :
       sequences[o.sequence_name].exists}

----------------------------------------------------------------------------
(* Text: str.lower, re.sub, str.strip, slicing, re.match *)

AsciiUpper == <<"A", "B", "C", "D", "E", "F", "G", "H", "I", "J", "K", "L", "M",
                "N", "O", "P", "Q", "R", "S", "T", "U", "V", "W", "X", "Y", "Z">>

AsciiLower == <<"a", "b", "c", "d", "e", "f", "g", "h", "i", "j", "k", "l", "m",
                "n", "o", "p", "q", "r", "s", "t", "u", "v", "w", "x", "y", "z">>

LowerLetters == {AsciiLower[i] : i \in 1..26}

Digits == {"0", "1", "2", "3", "4", "5", "6", "7", "8", "9"}

\* str.lower() of one character: A-Z to a-z; U+00C9 (E acute) to U+00E9;
\* U+0130 (I with dot above) to "i" and U+0307; anything else is itself
LowerChar(ch) ==
    IF \E i \in 1..26 : AsciiUpper[i] = ch
    THEN <<AsciiLower[CHOOSE i \in 1..26 : AsciiUpper[i] = ch]>>
    ELSE IF ch = "U+00C9" THEN <<"U+00E9">>
    ELSE IF ch = "U+0130" THEN <<"i", "U+0307">>
    ELSE <<ch>>

\* the positions 1..n, in order
Positions(n) == [i \in 1..n |-> i]

\* text.lower(): slot 2i-1 holds the first character of LowerChar(text[i]), slot 2i the
\* second, if there is one
Lower(text) ==
    LET Part(k) == LowerChar(text[(k + 1) \div 2])
        At(k) == IF k % 2 = 1 THEN 1 ELSE 2
        Filled(k) == At(k) <= Len(Part(k))
        slots == SelectSeq(Positions(2 * Len(text)), Filled)
    IN  [m \in 1..Len(slots) |-> Part(slots[m])[At(slots[m])]]

\* the class [a-z0-9_]
InClass(ch) == ch \in LowerLetters \cup Digits \cup {"_"}

\* re.sub(r'[^a-z0-9_]+', '_', text): every maximal run of characters outside the class
\* becomes one underscore
SubOutside(text) ==
    LET Kept(i) == InClass(text[i]) \/ i = 1 \/ InClass(text[i - 1])
        kept == SelectSeq(Positions(Len(text)), Kept)
    IN  [m \in 1..Len(kept) |-> IF InClass(text[kept[m]]) THEN text[kept[m]] ELSE "_"]

\* re.sub(r'__+', '_', text): every run of two or more underscores becomes one
SubUnderscores(text) ==
    LET Kept(i) == text[i] # "_" \/ i = 1 \/ text[i - 1] # "_"
        kept == SelectSeq(Positions(Len(text)), Kept)
    IN  [m \in 1..Len(kept) |-> text[kept[m]]]

\* text.strip('_')
StripUnderscores(text) ==
    LET inner == {i \in 1..Len(text) : text[i] # "_"}
    IN  IF inner = {} THEN <<>>
        ELSE SubSeq(text, CHOOSE i \in inner : \A j \in inner : i <= j,
                          CHOOSE i \in inner : \A j \in inner : i >= j)

\* text[:n]
SliceTo(text, n) == SubSeq(text, 1, IF Len(text) < n THEN Len(text) ELSE n)

\* the slice bound of auto_populate_db_name
SuggestionLimit == 40

\* re.match(r'[a-z_][a-z0-9_]*', db_name): a match that need not reach the end
IdentifierMatchPrefix(db_name) ==
    /\ Len(db_name) >= 1
    /\ db_name[1] \in LowerLetters \cup {"_"}

\* re.match(r'^[a-z_][a-z0-9_]*$', db_name); $ also matches before a final newline
IdentifierMatch(db_name) ==
    \E k \in 1..Len(db_name) :
        /\ db_name[1] \in LowerLetters \cup {"_"}
        /\ \A i \in 2..k : InClass(db_name[i])
        /\ \/ k = Len(db_name)
           \/ k = Len(db_name) - 1 /\ db_name[Len(db_name)] = "\n"

----------------------------------------------------------------------------
(* DetailsPage *)

\* the suggestion without the first re.sub
auto_populate_db_name_no_sub(text) ==
    <<"s", "g", "b", "_">>
        \o SliceTo(StripUnderscores(SubUnderscores(Lower(text))), SuggestionLimit)

\* what auto_populate_db_name(text) puts into db_name_edit
auto_populate_db_name(text) ==
    <<"s", "g", "b", "_">>
        \o SliceTo(StripUnderscores(SubUnderscores(SubOutside(Lower(text)))), SuggestionLimit)

\* company_name_edit changes to `text`: textChanged is connected to auto_populate_db_name
company_name_changed(text) ==
    /\ text # companyName
    /\ companyName' = text
    /\ dbName' = auto_populate_db_name(text)

\* validatePage with a pattern that is not anchored at the end
validatePage_unanchored ==
    IF companyName = <<>>
    THEN [ok |-> FALSE, warning |-> "Company Name cannot be empty."]
    ELSE IF dbName = <<>>
    THEN [ok |-> FALSE, warning |-> "Database Name cannot be empty."]
    ELSE IF ~IdentifierMatchPrefix(dbName)
    THEN [ok |-> FALSE, warning |-> "Invalid Database Name"]
    ELSE [ok |-> TRUE, warning |-> ""]

\* DetailsPage.validatePage: its result and the warning it shows
validatePage ==
    IF companyName = <<>>
    THEN [ok |-> FALSE, warning |-> "Company Name cannot be empty."]
    ELSE IF dbName = <<>>
    THEN [ok |-> FALSE, warning |-> "Database Name cannot be empty."]
    ELSE IF ~IdentifierMatch(dbName)
    THEN [ok |-> FALSE, warning |-> "Invalid Database Name"]
    ELSE [ok |-> TRUE, warning |-> ""]

\* FinalPage.initializePage: the summary from the three fields
initializePage ==
    [company_name |-> companyName, db_name |-> dbName,
     use_coa |-> IF useDefaultCoa THEN "Yes" ELSE "No"]

NoSummary == [company_name |-> <<>>, db_name |-> <<>>, use_coa |-> ""]

----------------------------------------------------------------------------
(* CompanyCreationWizard: IntroPage, DetailsPage, FinalPage, in the order of addPage *)

\* longest text typed into a line edit
MaxFieldLen == 2

Keys == {"a", "A", "0", "_", " "}

\* the state after CompanyCreationWizard(): first page, empty fields, box checked
UiInit ==
    /\ page = "intro"
    /\ companyName = <<>>
    /\ dbName = <<>>
    /\ useDefaultCoa = TRUE
    /\ summary = NoSummary
    /\ message = ""

\* Next on the introductory page, which validates nothing
NextFromIntro ==
    /\ page = "intro"
    /\ page' = "details"
    /\ message' = ""
    /\ UNCHANGED <<companyName, dbName, useDefaultCoa, summary>>
    /\ UNCHANGED <<seqVars, provVars>>

\* Next on the details page: QWizard asks validatePage, and shows the next page,
\* which it initializes, only when the answer is True
NextFromDetails ==
    /\ page = "details"
    /\ IF validatePage.ok
       THEN /\ page' = "final"
            /\ summary' = initializePage
            /\ message' = ""
       ELSE /\ message' = validatePage.warning
            /\ UNCHANGED <<page, summary>>
    /\ UNCHANGED <<companyName, dbName, useDefaultCoa>>
    /\ UNCHANGED <<seqVars, provVars>>

\* Back on the final page; its label leaves the screen until initializePage rewrites it
BackFromFinal ==
    /\ page = "final"
    /\ page' = "details"
    /\ summary' = NoSummary
    /\ message' = ""
    /\ UNCHANGED <<companyName, dbName, useDefaultCoa>>
    /\ UNCHANGED <<seqVars, provVars>>

\* Back on the details page: QWizardPage.cleanupPage resets the page's fields
BackFromDetails ==
    /\ page = "details"
    /\ page' = "intro"
    /\ companyName' = <<>>
    /\ dbName' = <<>>
    /\ useDefaultCoa' = TRUE
    /\ message' = ""
    /\ UNCHANGED summary
    /\ UNCHANGED <<seqVars, provVars>>

TypeCompanyName ==
    \E ch \in Keys :
        /\ page = "details"
        /\ Len(companyName) < MaxFieldLen
        /\ company_name_changed(Append(companyName, ch))
        /\ message' = ""
        /\ UNCHANGED <<page, useDefaultCoa, summary>>
        /\ UNCHANGED <<seqVars, provVars>>

EraseCompanyName ==
    /\ page = "details"
    /\ companyName # <<>>
    /\ company_name_changed(SubSeq(companyName, 1, Len(companyName) - 1))
    /\ message' = ""
    /\ UNCHANGED <<page, useDefaultCoa, summary>>
    /\ UNCHANGED <<seqVars, provVars>>

TypeDbName ==
    \E ch \in Keys :
        /\ page = "details"
        /\ Len(dbName) < MaxFieldLen
        /\ dbName' = Append(dbName, ch)
        /\ message' = ""
        /\ UNCHANGED <<page, companyName, useDefaultCoa, summary>>
        /\ UNCHANGED <<seqVars, provVars>>

EraseDbName ==
    /\ page = "details"
    /\ dbName # <<>>
    /\ dbName' = SubSeq(dbName, 1, Len(dbName) - 1)
    /\ message' = ""
    /\ UNCHANGED <<page, companyName, useDefaultCoa, summary>>
    /\ UNCHANGED <<seqVars, provVars>>

ToggleDefaultCoa ==
    /\ page = "details"
    /\ useDefaultCoa' = ~useDefaultCoa
    /\ message' = ""
    /\ UNCHANGED <<page, companyName, dbName, summary>>
    /\ UNCHANGED <<seqVars, provVars>>

\* Finish on the final page: the wizard is accepted with the fields as they stand
Finish ==
    /\ page = "final"
    /\ page' = "accepted"
    /\ message' = ""
    /\ UNCHANGED <<companyName, dbName, useDefaultCoa, summary>>
    /\ UNCHANGED <<seqVars, provVars>>

Cancel ==
    /\ page \in {"intro", "details", "final"}
    /\ page' = "rejected"
    /\ message' = ""
    /\ UNCHANGED <<companyName, dbName, useDefaultCoa, summary>>
    /\ UNCHANGED <<seqVars, provVars>>

----------------------------------------------------------------------------
(* Tenant provisioning: Validate, Create Storage, Initialize Schema, Seed Defaults, *)
(* Finalize, with rollback on failure                                               *)

\* provisioning attempts in one run
MaxAttempts == 2

\* storage identifiers a front end may pass
ProvIdentifiers ==
    { <<>>,
      <<"a">>,
      <<"_", "0">>,
      <<"s", "g", "b", "_", "a">>,
      <<"0", "a">>,
      <<"a", "A">>,
      <<"M", "y", " ", "B", "a", "k", "e", "r", "y", "!">> }

DisplayNames == { <<"M", "y", " ", "B", "a", "k", "e", "r", "y", "!">> }

NoAttempt ==
    [step |-> "idle", display_name |-> <<>>, storage_identifier |-> <<>>,
     seed_with_defaults |-> FALSE, error |-> "", warning |-> "", created |-> FALSE]

ProvInit ==
    /\ prov = NoAttempt
    /\ databases = [id \in ProvIdentifiers |-> "absent"]
    /\ tenants = {}
    /\ signal = <<>>
    /\ attempts = 0

\* a front end hands over display_name, storage_identifier and seed_with_defaults
StartProvisioning ==
    \E name \in DisplayNames, id \in ProvIdentifiers, seed \in BOOLEAN :
        /\ prov.step \in {"idle", "done", "failed"}
        /\ attempts < MaxAttempts
        /\ attempts' = attempts + 1
        /\ prov' = [NoAttempt EXCEPT !.step = "validate", !.display_name = name,
                                     !.storage_identifier = id,
                                     !.seed_with_defaults = seed]
        /\ signal' = <<>>
        /\ UNCHANGED <<databases, tenants>>
        /\ UNCHANGED <<seqVars, uiVars>>

Fail(error) == [prov EXCEPT !.step = "failed", !.error = error]

\* step 1: the identifier's syntax, then its uniqueness among the tenants
Validate ==
    /\ prov.step = "validate"
    /\ prov' = IF ~IdentifierMatch(prov.storage_identifier)
               THEN Fail("InvalidTenantName")
               ELSE IF prov.storage_identifier \in tenants
               THEN Fail("TenantAlreadyExists")
               ELSE [prov EXCEPT !.step = "create"]
    /\ UNCHANGED <<databases, tenants, signal, attempts>>
    /\ UNCHANGED <<seqVars, uiVars>>

\* step 2: a new empty database; it fails on a name the server already holds, or for
\* want of privilege or time, and nothing follows
CreateStorage ==
    \E granted \in BOOLEAN :
        /\ prov.step = "create"
        /\ IF granted /\ databases[prov.storage_identifier] = "absent"
           THEN /\ databases' = [databases EXCEPT ![prov.storage_identifier] = "empty"]
                /\ prov' = [prov EXCEPT !.step = "schema", !.created = TRUE]
           ELSE /\ prov' = Fail("ProvisioningFailure")
                /\ UNCHANGED databases
        /\ UNCHANGED <<tenants, signal, attempts>>
        /\ UNCHANGED <<seqVars, uiVars>>

\* step 3: the baseline schema; on failure the rollback is due
InitializeSchema ==
    \E applied \in BOOLEAN :
        /\ prov.step = "schema"
        /\ IF applied
           THEN /\ databases' = [databases EXCEPT ![prov.storage_identifier] = "schema"]
                /\ prov' = [prov EXCEPT !.step = IF prov.seed_with_defaults
                                                 THEN "seed" ELSE "finalize"]
           ELSE /\ prov' = [prov EXCEPT !.step = "rollback",
                                        !.error = "SchemaInitializationFailure"]
                /\ UNCHANGED databases
        /\ UNCHANGED <<tenants, signal, attempts>>
        /\ UNCHANGED <<seqVars, uiVars>>

\* step 4, when seed_with_defaults: the baseline counters and settings
SeedDefaults ==
    \E inserted \in BOOLEAN :
        /\ prov.step = "seed"
        /\ IF inserted
           THEN /\ databases' = [databases EXCEPT ![prov.storage_identifier] = "seeded"]
                /\ prov' = [prov EXCEPT !.step = "finalize"]
           ELSE /\ prov' = [prov EXCEPT !.step = "rollback", !.error = "ProvisioningFailure"]
                /\ UNCHANGED databases
        /\ UNCHANGED <<tenants, signal, attempts>>
        /\ UNCHANGED <<seqVars, uiVars>>

\* a rollback that reports the failure and drops nothing
DropDatabase_skipped ==
    /\ prov.step = "rollback"
    /\ prov' = [prov EXCEPT !.step = "failed"]
    /\ UNCHANGED <<databases, tenants, signal, attempts>>
    /\ UNCHANGED <<seqVars, uiVars>>

\* the rollback: drop the database this attempt created; a drop that fails is
\* reported as CleanupWarning beside the error
DropDatabase ==
    \E dropped \in BOOLEAN :
        /\ prov.step = "rollback"
        /\ IF dropped
           THEN /\ databases' = [databases EXCEPT ![prov.storage_identifier] = "absent"]
                /\ prov' = [prov EXCEPT !.step = "failed"]
           ELSE /\ prov' = [prov EXCEPT !.step = "failed", !.warning = "CleanupWarning"]
                /\ UNCHANGED databases
        /\ UNCHANGED <<tenants, signal, attempts>>
        /\ UNCHANGED <<seqVars, uiVars>>

\* step 5: the tenant is recorded and the host is told to reconnect
Finalize ==
    /\ prov.step = "finalize"
    /\ tenants' = tenants \cup {prov.storage_identifier}
    /\ signal' = <<prov.storage_identifier>>
    /\ prov' = [prov EXCEPT !.step = "done"]
    /\ UNCHANGED <<databases, attempts>>
    /\ UNCHANGED <<seqVars, uiVars>>

----------------------------------------------------------------------------
(* Spec: the service under every operation, each call taken whole *)

Init ==
    /\ sequences = EmptyTable
    /\ callerTx = [status |-> "idle", writes |-> EmptyTable]
    /\ pc = [c \in Clients |-> Idle]
    /\ last = NoEvent
    /\ before = EmptyTable
    /\ ret = [c \in Clients |-> NoReturn]
    /\ UiInit
    /\ ProvInit

Lookup == \E n \in Names : get_sequence_by_name(n) /\ UNCHANGED <<before, ret, uiVars, provVars>>

GetNext ==
    \E n \in Names :
        /\ sequences[n].exists => sequences[n].current_value < MaxValue
        /\ get_next_sequence(n)
        /\ UNCHANGED <<before, ret, uiVars, provVars>>

Define == \E o \in NewSequences : save_sequence_own_session(o) /\ UNCHANGED <<before, ret, uiVars, provVars>>

DefineInCaller ==
    \E o \in NewSequences : save_sequence_caller_session(o) /\ UNCHANGED <<before, ret, uiVars, provVars>>

Update == \E o \in LoadedSequences : save_sequence_own_session(o) /\ UNCHANGED <<before, ret, uiVars, provVars>>

UpdateInCaller ==
    \E o \in LoadedSequences : save_sequence_caller_session(o) /\ UNCHANGED <<before, ret, uiVars, provVars>>

Commit == CallerCommit /\ UNCHANGED <<before, ret, uiVars, provVars>>

Rollback == CallerRollback /\ UNCHANGED <<before, ret, uiVars, provVars>>

Next ==
    \/ Lookup
    \/ GetNext
    \/ Define
    \/ DefineInCaller
    \/ Update
    \/ UpdateInCaller
    \/ Commit
    \/ Rollback

Spec == Init /\ [][Next]_vars

----------------------------------------------------------------------------
(* SpecIssue: NumClients concurrent get_next_sequence calls, one per client, on a  *)
(* table that holds any counters; each call may be suspended at its await.         *)

IssueTables == [Names -> {NoRow} \cup {Row(v, t) : v \in IssueStartValues, t \in Templates}]

InitIssue ==
    /\ sequences \in IssueTables
    /\ before = sequences
    /\ callerTx = [status |-> "idle", writes |-> EmptyTable]
    /\ pc = [c \in Clients |-> Idle]
    /\ last = NoEvent
    /\ ret = [c \in Clients |-> NoReturn]
    /\ UiInit
    /\ ProvInit

IssueExecute ==
    \E c \in Clients, n \in Names :
        /\ ret[c] = NoReturn
        /\ get_next_sequence_execute(c, n)
        /\ UNCHANGED <<before, ret, uiVars, provVars>>

IssueReturn ==
    \E c \in Clients :
        /\ get_next_sequence_return(c)
        /\ ret' = [ret EXCEPT ![c] = [sequence_name |-> last'.name, text |-> last'.text]]
        /\ UNCHANGED <<before, uiVars, provVars>>

NextIssue ==
    \/ IssueExecute
    \/ IssueReturn

SpecIssue == InitIssue /\ [][NextIssue]_vars

----------------------------------------------------------------------------
(* SpecWizard: the company-creation wizard, key by key and button by button.  Next *)
(* is taken as QWizard.next(), with or without the mandatory fields filled in.     *)

SeqInit ==
    /\ sequences = EmptyTable
    /\ callerTx = [status |-> "idle", writes |-> EmptyTable]
    /\ pc = [c \in Clients |-> Idle]
    /\ last = NoEvent
    /\ before = EmptyTable
    /\ ret = [c \in Clients |-> NoReturn]

InitWizard == SeqInit /\ UiInit /\ ProvInit

NextWizard ==
    \/ NextFromIntro
    \/ NextFromDetails
    \/ BackFromFinal
    \/ BackFromDetails
    \/ TypeCompanyName
    \/ EraseCompanyName
    \/ TypeDbName
    \/ EraseDbName
    \/ ToggleDefaultCoa
    \/ Finish
    \/ Cancel

SpecWizard == InitWizard /\ [][NextWizard]_vars

----------------------------------------------------------------------------
(* SpecText: auto_populate_db_name on company names of every shape, short ones of *)
(* any characters and long ones around the slice bound                            *)

\* longest company name of arbitrary characters
MaxShortLen == 3

TextChars == {"a", "A", "0", "_", " ", "\n", "U+00C9", "U+0130"}

Texts(chars, n) == UNION {[1..k -> chars] : k \in 0..n}

Fill(ch, n) == [i \in 1..n |-> ch]

LongTexts ==
    {head \o Fill(ch, n) \o tail :
        head \in Texts({"_", " "}, 1),
        ch \in {"a", "A", "_", "U+0130"},
        n \in (SuggestionLimit - 2)..(SuggestionLimit + 1),
        tail \in Texts({"a", " "}, 2)}

CompanyTexts == Texts(TextChars, MaxShortLen) \cup LongTexts

InitText == SeqInit /\ UiInit /\ ProvInit

\* company_name_edit.setText(text) on the empty edit
SetCompanyName ==
    \E text \in CompanyTexts :
        /\ companyName = <<>>
        /\ company_name_changed(text)
        /\ UNCHANGED <<page, useDefaultCoa, summary, message>>
        /\ UNCHANGED <<seqVars, provVars>>

\* company_name_edit.clear()
ClearCompanyName ==
    /\ company_name_changed(<<>>)
    /\ UNCHANGED <<page, useDefaultCoa, summary, message>>
    /\ UNCHANGED <<seqVars, provVars>>

NextText ==
    \/ SetCompanyName
    \/ ClearCompanyName

SpecText == InitText /\ [][NextText]_vars

----------------------------------------------------------------------------
(* SpecProvision: provisioning attempts, on a server that may hold one tenant already *)

InitProvision ==
    /\ SeqInit
    /\ UiInit
    /\ prov = NoAttempt
    /\ tenants \in {{}, {<<"a">>}}
    /\ databases = [id \in ProvIdentifiers |-> IF id \in tenants THEN "seeded" ELSE "absent"]
    /\ signal = <<>>
    /\ attempts = 0

NextProvision ==
    \/ StartProvisioning
    \/ Validate
    \/ CreateStorage
    \/ InitializeSchema
    \/ SeedDefaults
    \/ DropDatabase
    \/ Finalize

SpecProvision == InitProvision /\ [][NextProvision]_vars

----------------------------------------------------------------------------
(* Decimal text, stated apart from Str *)

DigitValue(ch) == CASE ch = "0" -> 0 [] ch = "1" -> 1 [] ch = "2" -> 2 [] ch = "3" -> 3
                    [] ch = "4" -> 4 [] ch = "5" -> 5 [] ch = "6" -> 6 [] ch = "7" -> 7
                    [] ch = "8" -> 8 [] ch = "9" -> 9

DigitChars == {"0", "1", "2", "3", "4", "5", "6", "7", "8", "9"}

IsDecimal(text) ==
    /\ Len(text) >= 1
    /\ \A i \in 1..Len(text) : text[i] \in DigitChars
    /\ Len(text) > 1 => text[1] # "0"

RECURSIVE DecimalValue(_)
DecimalValue(text) ==
    IF text = <<>> THEN 0
    ELSE 10 * DecimalValue(SubSeq(text, 1, Len(text) - 1)) + DigitValue(text[Len(text)])

----------------------------------------------------------------------------
(* Claims about the sequence service *)

Completed(n) == {c \in Clients : ret[c] # NoReturn /\ ret[c].sequence_name = n}

InFlight(n) == {c \in Clients : pc[c].at = "executed" /\ pc[c].sequence_name = n}

\* C1: whenever no call on a name N is in flight, the K calls on N that have returned
\* returned pairwise distinct texts, and these are the decimal texts of exactly
\* v+1 .. v+K, v the value stored for N before the calls; the stored value is v+K.
C1_DistinctContiguous ==
    \A n \in Names :
        InFlight(n) = {} =>
            LET K == Cardinality(Completed(n))
                v == before[n].current_value
            IN  /\ \A c, d \in Completed(n) : c # d => ret[c].text # ret[d].text
                /\ \A c \in Completed(n) : IsDecimal(ret[c].text)
                /\ {DecimalValue(ret[c].text) : c \in Completed(n)} = (v + 1)..(v + K)
                /\ sequences[n].current_value = v + K

C1_Witness ==
    /\ \A c \in Clients : ret[c] # NoReturn /\ ret[c].sequence_name = "INV"
    /\ before["INV"].current_value = 8
    /\ <<"1", "0">> \in {ret[c].text : c \in Clients}

C4_DuplicateDefinition ==
    [][(/\ last'.op = "save_sequence"
        /\ ~last'.loaded
        /\ (IF last'.session THEN CallerView ELSE sequences)[last'.name].exists) =>
          /\ last'.raised = "DuplicateSequence"
          /\ sequences' = sequences
          /\ callerTx'.writes = callerTx.writes]_vars

C4_Witness ==
    /\ last.op = "save_sequence"
    /\ last.raised = "DuplicateSequence"
    /\ ~last.session
    /\ sequences[last.name] = Row(2, "INV-{VALUE:05}")

\* C5: the stored current_value of an existing counter never decreases, whatever
\* operation runs.
C5_Monotonic ==
    [][\A n \in Names :
          sequences[n].exists =>
              /\ sequences'[n].exists
              /\ sequences'[n].current_value >= sequences[n].current_value]_vars

\* C8: get_sequence_by_name changes no row, committed or flushed; it returns the committed
\* row of the name (not found when there is none), so a call repeated with no operation
\* between returns the same data.
C8_LookupReadOnly ==
    [][last'.op = "get_sequence_by_name" =>
          /\ sequences' = sequences
          /\ callerTx' = callerTx
          /\ last'.row = sequences[last'.name]
          /\ (last.op = "get_sequence_by_name" /\ last.name = last'.name) =>
                 last'.row = last.row]_vars

C8_Witness ==
    /\ last.op = "get_sequence_by_name"
    /\ last.row = Row(2, "{VALUE}")
    /\ \E m \in Names : ~sequences[m].exists

----------------------------------------------------------------------------
(* Claims about the wizard and the provisioning protocol *)

\* the identifier syntax ^[a-z_][a-z0-9_]*$, stated position by position
IsIdentifier(text) ==
    /\ Len(text) >= 1
    /\ text[1] \in LowerLetters \cup {"_"}
    /\ \A i \in 2..Len(text) : text[i] \in LowerLetters \cup Digits \cup {"_"}

Usable ==
    /\ databases[prov.storage_identifier] =
           (IF prov.seed_with_defaults THEN "seeded" ELSE "schema")
    /\ prov.storage_identifier \in tenants
    /\ signal = <<prov.storage_identifier>>

NothingLeftBehind == ~prov.created \/ databases[prov.storage_identifier] = "absent"

\* C7 as claimed: every attempt ends either in success with a usable tenant, or in a
\* failure that leaves no database of its making under the identifier.
C7_Atomic ==
    /\ prov.step = "done" => Usable
    /\ prov.step = "failed" => NothingLeftBehind

\* C7 as amended: every attempt ends in success with a usable tenant, or in a failure that
\* leaves no database of its making under the identifier, or, when the rollback's drop
\* itself fails, in a failure reported with CleanupWarning beside the error of the step
\* that failed, the database left behind.
C7_AtomicUnlessCleanupFails ==
    /\ prov.step = "done" => Usable /\ prov.error = "" /\ prov.warning = ""
    /\ (prov.step = "failed" /\ prov.warning = "") => NothingLeftBehind /\ prov.error # ""
    /\ (prov.step = "failed" /\ prov.warning # "") =>
           /\ prov.warning = "CleanupWarning"
           /\ prov.error \in {"SchemaInitializationFailure", "ProvisioningFailure"}
           /\ prov.created

\* a failed schema initialization, rolled back
C7_Witness ==
    /\ prov.step = "failed"
    /\ prov.error = "SchemaInitializationFailure"
    /\ prov.warning = ""
    /\ prov.created
    /\ databases[prov.storage_identifier] = "absent"

ValidDetails == companyName # <<>> /\ dbName # <<>> /\ IsIdentifier(dbName)

PageMoves ==
    { <<"intro", "details">>, <<"details", "final">>, <<"final", "details">>,
      <<"details", "intro">>, <<"final", "accepted">>,
      <<"intro", "rejected">>, <<"details", "rejected">>, <<"final", "rejected">> }

C10_SuggestionAccepted ==
    (companyName # <<>> \/ dbName # <<>>) =>
        /\ Len(dbName) >= 4
        /\ SubSeq(dbName, 1, 4) = <<"s", "g", "b", "_">>
        /\ \A i \in 1..Len(dbName) : dbName[i] \in LowerLetters \cup Digits \cup {"_"}
        /\ IsIdentifier(dbName)
        /\ IdentifierMatch(dbName)
        /\ Len(dbName) <= 44

\* a long name cut at the slice bound, the cut leaving an underscore at the end
C10_Witness ==
    /\ Len(companyName) > 40
    /\ Len(dbName) = 44
    /\ dbName[44] = "_"
    /\ \E i \in 1..Len(companyName) : companyName[i] = "U+0130"

====
